---- MODULE Spec2Model ----
(***************************************************************************)
(* FluxPlayer Pro: the controller of src/js/app.js (AppState,              *)
(* PlayerController, SettingsController) over src/js/storage.js, as a      *)
(* state machine.  One action per event handler; a handler runs to         *)
(* completion before the next one starts (single-threaded event loop).     *)
(*                                                                         *)
(* Conventions                                                             *)
(*  - a playback time is an integer number of 1/SubSecondSteps seconds;    *)
(*  - a resource handle (object URL) is a positive integer, NoHandle is    *)
(*    the empty string '' that createTrackBlob returns on failure and the  *)
(*    null that videoObjectUrl starts with;                                *)
(*  - new Date() is the logical clock `now`, which Tick advances;           *)
(*  - the FileReader reads in flight are a bag: they complete in any order;*)
(*  - an exception that no handler catches sets `uncaught`;                *)
(*  - localStorage.setItem succeeds while `storeOk` holds.                 *)
(*                                                                         *)
(* Specifications                                                          *)
(*  - Spec: the page driven through its UI, on a store that works;         *)
(*  - SpecSaved: the same, opened on records other builds may have left;   *)
(*  - SpecCalls: loadVideo also called without a file;                     *)
(*  - SpecSettings: the settings panel, opened on any persisted record;    *)
(*  - SpecStore: the handlers that write, on a store that may reject;      *)
(*  - SpecRemove: the player with the subtitle list's remove button;       *)
(*  - SpecSrt: srtToVtt on texts put together from pieces;                 *)
(*  - SpecParsed: subtitle files of several names and texts;               *)
(*  - SpecApply: the caption style, on any colour string and opacity;      *)
(*  - SpecSampling: progress sampling, with a position below 1 s.          *)
(***************************************************************************)
EXTENDS Integers, Sequences, FiniteSets, Bags, TLC

\* ---------------------------------------------------------------- constants
HistoryCap == 20

\* ------------------------------------------------------------------- bounds
MaxHandles == 3
MaxTicks == 1
SubSecondSteps == 2

NoHandle == 0
NoName == 0
NoSecond == -1

\* ------------------------------------------------------------ SubtitleParser
\* Text is a sequence of one-character strings.
Digits == {"0", "1", "2", "3", "4", "5", "6", "7", "8", "9"}

\* "WEBVTT\n\n"
VttHeader == <<"W", "E", "B", "V", "T", "T", "\n", "\n">>

\* .replace(/\r\n/g, '\n')
RECURSIVE ReplaceCRLF(_)
ReplaceCRLF(text) ==
    IF text = <<>> THEN <<>>
    ELSE IF Len(text) >= 2 /\ text[1] = "\r" /\ text[2] = "\n"
         THEN <<"\n">> \o ReplaceCRLF(SubSeq(text, 3, Len(text)))
         ELSE <<text[1]>> \o ReplaceCRLF(Tail(text))

\* .replace(/\r/g, '\n')
ReplaceCR(text) == [i \in 1..Len(text) |-> IF text[i] = "\r" THEN "\n" ELSE text[i]]

\* /(\d{2}:\d{2}:\d{2}),(\d{3})/ matches at the head of text
TimestampRegex(text) ==
    /\ Len(text) >= 12
    /\ \A i \in {1, 2, 4, 5, 7, 8, 10, 11, 12} : text[i] \in Digits
    /\ text[3] = ":"
    /\ text[6] = ":"
    /\ text[9] = ","

\* .replace(timestampRegex, '$1.$2') with the g flag: the matches are taken
\* from the left and do not overlap
RECURSIVE ReplaceTimestamps(_)
ReplaceTimestamps(text) ==
    IF text = <<>> THEN <<>>
    ELSE IF TimestampRegex(text)
         THEN SubSeq(text, 1, 8) \o <<".">> \o SubSeq(text, 10, 12)
              \o ReplaceTimestamps(SubSeq(text, 13, Len(text)))
         ELSE <<text[1]>> \o ReplaceTimestamps(Tail(text))

\* srtToVtt that leaves a carriage return without a line feed in place
SrtToVttKeepCR(srtContent) ==
    IF srtContent = <<>> THEN <<>>
    ELSE VttHeader \o ReplaceTimestamps(ReplaceCRLF(srtContent))

\* SubtitleParser.srtToVtt(srtContent)
SrtToVtt(srtContent) ==
    IF srtContent = <<>> THEN <<>>
    ELSE VttHeader \o ReplaceTimestamps(ReplaceCR(ReplaceCRLF(srtContent)))

\* String.prototype.toLowerCase, on the letters file names are made of here
ToLowerCase(name) ==
    [i \in 1..Len(name) |->
        CASE name[i] = "S" -> "s"
          [] name[i] = "R" -> "r"
          [] name[i] = "T" -> "t"
          [] name[i] = "M" -> "m"
          [] OTHER -> name[i]]

\* String.prototype.endsWith
EndsWith(name, suffix) ==
    /\ Len(name) >= Len(suffix)
    /\ SubSeq(name, Len(name) - Len(suffix) + 1, Len(name)) = suffix

\* isSrt that compares the name as it is written
IsSrtCaseSensitive(file) == EndsWith(file.name, <<".", "s", "r", "t">>)

\* SubtitleParser.isSrt(file)
IsSrt(file) == EndsWith(ToLowerCase(file.name), <<".", "s", "r", "t">>)

\* Subtitle text: a cue of an .srt file with Windows line ends
SrtTimestamp == <<"0", "0", ":", "0", "0", ":", "0", "1", ",", "5", "0", "0">>
SrtCue == <<"1", "\r", "\n">> \o SrtTimestamp \o <<" ", "-", "-", ">", " ">>
          \o SrtTimestamp \o <<"\r", "\n", "a", "\r", "\n">>

\* File descriptors handed over by the file inputs / drag and drop.
VideoFile(n) == [name |-> n, size |-> n, type |-> "video/mp4"]
NoFile == [name |-> NoName, size |-> 0, type |-> ""]

\* Names of the videos the user opens: the oldest entry of a full saved
\* history and a name that is not in it.
VideoNames == {HistoryCap, HistoryCap + 1}
VideoFiles == {VideoFile(n) : n \in VideoNames}

\* a subtitle file: its name and the text FileReader.readAsText yields
SubtitleFiles ==
    { [name |-> <<"m", ".", "S", "R", "T">>, content |-> <<"a", "\r", "\n">>] }

\* Positions the player reports: 0, 1 s, 5 s.
Positions == {0, SubSecondSteps, 5 * SubSecondSteps}

Floor(t) == t \div SubSecondSteps

\* ------------------------------------------------------------ AppState data
SettingKeys == {"fontSize", "fontFamily", "textColor", "bgColor", "bgOpacity"}

DefaultSettings ==
    [fontSize |-> 18, fontFamily |-> "'Inter', sans-serif",
     textColor |-> "#ffffff", bgColor |-> "#000000", bgOpacity |-> 50]

\* Values the settings panel delivers that differ from the defaults; the
\* numeral of a range input is modelled by its number.
UserSettings ==
    [fontSize |-> 24, fontFamily |-> "'Roboto', sans-serif",
     textColor |-> "#ff0000", bgColor |-> "#00ff00", bgOpacity |-> 80]

SettingValues(key) == {DefaultSettings[key], UserSettings[key]}

\* the settings object of a persisted record that has the fields keys only
PartialSettings(keys) == [k \in keys |-> UserSettings[k]]

\* init that takes saved.settings as it is: the spread over the defaults is
\* missing
SpreadReplace(a, b) == b

\* { ...a, ...b }
Spread(a, b) ==
    [k \in (DOMAIN a) \cup (DOMAIN b) |-> IF k \in DOMAIN b THEN b[k] ELSE a[k]]

HistoryEntry(file, time, ts) ==
    [name |-> file.name, size |-> file.size, type |-> file.type,
     time |-> time, lastPlayed |-> ts]

\* history.find(h => h.name === fileName): index of the first match, 0 if none
FindIndex(h, fileName) ==
    IF \E i \in 1..Len(h) : h[i].name = fileName
    THEN CHOOSE i \in 1..Len(h) :
            /\ h[i].name = fileName
            /\ \A j \in 1..(i - 1) : h[j].name # fileName
    ELSE 0

\* addToHistory without the cap: the pop() is missing
AddToHistoryNoPop(h, file, time, ts) ==
    <<HistoryEntry(file, time, ts)>> \o SelectSeq(h, LAMBDA e : e.name # file.name)

\* addToHistory without the de-duplication: the filter() is missing
AddToHistoryNoFilter(h, file, time, ts) ==
    LET unshifted == <<HistoryEntry(file, time, ts)>> \o h
    IN IF Len(unshifted) > HistoryCap
       THEN SubSeq(unshifted, 1, Len(unshifted) - 1)
       ELSE unshifted

\* addToHistory with push() where the code has unshift()
AddToHistoryPush(h, file, time, ts) ==
    LET filtered == SelectSeq(h, LAMBDA e : e.name # file.name)
        pushed == Append(filtered, HistoryEntry(file, time, ts))
    IN IF Len(pushed) > HistoryCap
       THEN SubSeq(pushed, 1, Len(pushed) - 1)
       ELSE pushed

\* addToHistory called without the offset: the entry takes the default time 0
AddToHistoryZeroTime(h, file, time, ts) ==
    LET filtered == SelectSeq(h, LAMBDA e : e.name # file.name)
        unshifted == <<HistoryEntry(file, 0, ts)>> \o filtered
    IN IF Len(unshifted) > HistoryCap
       THEN SubSeq(unshifted, 1, Len(unshifted) - 1)
       ELSE unshifted

\* AppState.addToHistory, the list it leaves in this.history
AddToHistory(h, file, time, ts) ==
    LET filtered == SelectSeq(h, LAMBDA e : e.name # file.name)
        unshifted == <<HistoryEntry(file, time, ts)>> \o filtered
    IN IF Len(unshifted) > HistoryCap
       THEN SubSeq(unshifted, 1, Len(unshifted) - 1)
       ELSE unshifted

\* updateHistoryTime that stamps every entry, not the one it found
UpdateHistoryTimeAll(h, fileName, time, ts) ==
    [i \in 1..Len(h) |-> [h[i] EXCEPT !.time = time, !.lastPlayed = ts]]

\* AppState.updateHistoryTime, the list it leaves in this.history
UpdateHistoryTime(h, fileName, time, ts) ==
    LET i == FindIndex(h, fileName)
    IN IF i # 0
       THEN [h EXCEPT ![i] = [@ EXCEPT !.time = time, !.lastPlayed = ts]]
       ELSE h

\* loadVideo that always starts from 0: the history lookup is ignored
ResumeTimeZero(h, fileName) == 0

\* AppState.getHistoryItem(name).time, or 0 when there is no item
ResumeTime(h, fileName) ==
    LET i == FindIndex(h, fileName)
    IN IF i # 0 THEN h[i].time ELSE 0

\* ------------------------------------------------------------ Storage data
NoRecord == [kind |-> "none", history |-> <<>>, settings |-> << >>]
Record(h, s) == [kind |-> "ok", history |-> h, settings |-> s]

\* an item whose text JSON.parse rejects, and the SyntaxError it throws
CorruptRecord == [kind |-> "corrupt", history |-> <<>>, settings |-> << >>]
ParseError == [kind |-> "threw", history |-> <<>>, settings |-> << >>]

\* Storage.get without the try/catch: the SyntaxError reaches the caller
StorageGetNoCatch(st) ==
    IF st.kind = "ok" THEN st
    ELSE IF st.kind = "corrupt" THEN ParseError ELSE NoRecord

\* Storage.get(): the parsed record, or null (kind "none") when there is no
\* item or JSON.parse throws
StorageGet(st) == IF st.kind = "ok" THEN st ELSE NoRecord

\* ------------------------------------------------------ SettingsController
\* The colour strings that reach apply, with their characters: what the
\* colour inputs deliver (#rrggbb) and what a persisted record may hold.
HexChars(hex) ==
    CASE hex = "#000000" -> <<"#", "0", "0", "0", "0", "0", "0">>
      [] hex = "#00ff00" -> <<"#", "0", "0", "f", "f", "0", "0">>
      [] hex = "#FfA07a" -> <<"#", "F", "f", "A", "0", "7", "a">>
      [] hex = "ff8800" -> <<"f", "f", "8", "8", "0", "0">>
      [] hex = "#fff" -> <<"#", "f", "f", "f">>
      [] hex = "#12345g" -> <<"#", "1", "2", "3", "4", "5", "g">>
      [] hex = "#1234567" -> <<"#", "1", "2", "3", "4", "5", "6", "7">>
      [] hex = "red" -> <<"r", "e", "d">>
      [] hex = "" -> << >>
      [] hex = "undefined" -> <<"u", "n", "d", "e", "f", "i", "n", "e", "d">>

ColorInputs ==
    {"#000000", "#00ff00", "#FfA07a", "ff8800", "#fff", "#12345g",
     "#1234567", "red", ""}

Opacities == {0, 25, 50, 80, 100}

\* [a-f\d] under the i flag, and what parseInt(.., 16) makes of one digit
HexDigits ==
    [c \in Digits \cup {"a", "b", "c", "d", "e", "f",
                        "A", "B", "C", "D", "E", "F"} |->
        CASE c = "0" -> 0 [] c = "1" -> 1 [] c = "2" -> 2 [] c = "3" -> 3
          [] c = "4" -> 4 [] c = "5" -> 5 [] c = "6" -> 6 [] c = "7" -> 7
          [] c = "8" -> 8 [] c = "9" -> 9
          [] c \in {"a", "A"} -> 10 [] c \in {"b", "B"} -> 11
          [] c \in {"c", "C"} -> 12 [] c \in {"d", "D"} -> 13
          [] c \in {"e", "E"} -> 14 [] c \in {"f", "F"} -> 15]

\* parseInt(result[k], 16) of a two-digit group
ParseInt16(group) == 16 * HexDigits[group[1]] + HexDigits[group[2]]

\* hexToRgb that takes the leading # as required
HexToRgbNeedsHash(hex) ==
    LET chars == HexChars(hex)
    IN IF /\ Len(chars) = 7
          /\ chars[1] = "#"
          /\ \A i \in 2..7 : chars[i] \in DOMAIN HexDigits
       THEN <<ParseInt16(SubSeq(chars, 2, 3)), ParseInt16(SubSeq(chars, 4, 5)),
              ParseInt16(SubSeq(chars, 6, 7))>>
       ELSE <<0, 0, 0>>

\* hexToRgb(hex): /^#?([a-f\d]{2})([a-f\d]{2})([a-f\d]{2})$/i.exec(hex),
\* the three groups parsed, or '0,0,0'; the channels as numbers
HexToRgb(hex) ==
    LET chars == HexChars(hex)
        digits == IF chars # <<>> /\ chars[1] = "#" THEN Tail(chars) ELSE chars
    IN IF /\ Len(digits) = 6
          /\ \A i \in 1..6 : digits[i] \in DOMAIN HexDigits
       THEN <<ParseInt16(SubSeq(digits, 1, 2)), ParseInt16(SubSeq(digits, 3, 4)),
              ParseInt16(SubSeq(digits, 5, 6))>>
       ELSE <<0, 0, 0>>

\* s[key]; a property the object lacks reads as undefined
Field(s, key) == IF key \in DOMAIN s THEN s[key] ELSE "undefined"

\* SettingsController.apply(s): the four custom properties; the alpha
\* s.bgOpacity / 100 as the fraction it is
Apply(s) ==
    [size |-> Field(s, "fontSize"),
     color |-> Field(s, "textColor"),
     bg |-> [rgb |-> HexToRgb(Field(s, "bgColor")),
             alpha |-> [num |-> Field(s, "bgOpacity"), den |-> 100]],
     font |-> Field(s, "fontFamily")]

\* A history written by an earlier session: names 1..n, newest first.
SavedHistory(n) ==
    [i \in 1..n |-> HistoryEntry(VideoFile(i), 0, n - i)]

VARIABLES
    stored,           \* localStorage item flux_pro_state_v1
    history,          \* AppState.history
    settings,         \* AppState.settings
    now,              \* the clock new Date() reads
    currentFile,      \* PlayerController.currentFile
    videoObjectUrl,   \* PlayerController.videoObjectUrl
    subtitleBlobs,    \* PlayerController.subtitleBlobs
    tracks,           \* PlayerController.tracks
    source,           \* the source installed in the Plyr instance
    currentTime,      \* instance.currentTime
    paused,           \* instance.paused
    metadataPending,  \* the installed source has not fired loadedmetadata yet
    listeners,        \* instance.once('loadedmetadata', ...) callbacks
    playTimers,       \* pending setTimeout(() => instance.play(), 200)
    pendingReads,     \* FileReader reads in flight
    nextHandle,       \* the k-th object URL creation yields URL k, or fails
    created,          \* object URLs URL.createObjectURL has returned
    revokeCount,      \* times each object URL was passed to revokeObjectURL
    urlCalls,         \* URL.* calls of the last handler that made any
    toast,            \* the last message passed to UIManager.showToast
    storeOk,          \* localStorage.setItem succeeds (no quota/security error)
    uncaught,         \* an exception escaped from a handler
    lastWritten,      \* the second of the last updateHistoryTime call the
                      \* timeupdate handler made since loadVideo
    conversion,       \* the last file reader.onload handled and the text it
                      \* passed to createTrackBlob
    captionCss        \* the --caption-* properties SettingsController.apply set

vars == <<stored, history, settings, now, currentFile, videoObjectUrl,
          subtitleBlobs, tracks, source, currentTime, paused, metadataPending,
          listeners, playTimers, pendingReads, nextHandle, created,
          revokeCount, urlCalls, toast, storeOk, uncaught, lastWritten,
          conversion, captionCss>>

appVars == <<stored, history, settings, storeOk, captionCss>>
playerVars == <<currentFile, videoObjectUrl, subtitleBlobs, tracks, source,
                currentTime, paused, metadataPending, listeners, playTimers,
                pendingReads, nextHandle, created, revokeCount, urlCalls,
                toast, uncaught, lastWritten, conversion>>

Handles == 1..MaxHandles

\* a FileReader read in flight: the file, and the video that was loaded when
\* loadSubtitle started it
Read(file, video) == [file |-> file, video |-> video]
Reads == {Read(f, v) : f \in SubtitleFiles, v \in Handles}
NoSource == [video |-> NoHandle, tracks |-> <<>>]
\* no reader.onload has run
NoConversion == [file |-> NoFile, vtt |-> <<>>]

\* ------------------------------------------------------------ URL registry
\* URL.revokeObjectURL(url): '' and null are not object URLs
\* a release that does nothing
RevokeObjectURLNoop(rc, url) == rc

RevokeObjectURL(rc, url) ==
    IF url \in DOMAIN rc THEN [rc EXCEPT ![url] = @ + 1] ELSE rc

RevokeCall(url) == [op |-> "revoke", url |-> url]
CreateCall(url) == [op |-> "create", url |-> url]

\* cleanupSubtitles that drops the list without revoking the blobs
CleanupSubtitlesNoRevoke(rc, blobs) == rc

\* PlayerController.cleanupSubtitles: the registry after revoking every blob
CleanupSubtitles(rc, blobs) ==
    [h \in DOMAIN rc |->
        rc[h] + Cardinality({i \in 1..Len(blobs) : blobs[i] = h})]

\* loadVideo that creates the new object URL before cleaning up the old ones
LoadVideoCallsCreateFirst(oldUrl, blobs, newUrl) ==
    <<CreateCall(newUrl)>>
    \o (IF oldUrl # NoHandle THEN <<RevokeCall(oldUrl)>> ELSE <<>>)
    \o [i \in 1..Len(blobs) |-> RevokeCall(blobs[i])]

\* the URL calls loadVideo makes before it installs the new source
LoadVideoCalls(oldUrl, blobs, newUrl) ==
    (IF oldUrl # NoHandle THEN <<RevokeCall(oldUrl)>> ELSE <<>>)
    \o [i \in 1..Len(blobs) |-> RevokeCall(blobs[i])]
    \o <<CreateCall(newUrl)>>

\* ------------------------------------------------------------------ player
\* UIManager.showToast(message)
NoToast == [msg |-> "", min |-> 0, sec |-> 0]
PleaseLoadToast == [msg |-> "Please load a video first!", min |-> 0, sec |-> 0]
SubtitleAddedToast == [msg |-> "Subtitle Added to Menu", min |-> 0, sec |-> 0]
\* `Resumed from ${Math.floor(t/60)}:${pad2(Math.floor(t%60))}`
ResumedToast(startTime) ==
    [msg |-> "Resumed from", min |-> Floor(startTime) \div 60,
     sec |-> Floor(startTime) % 60]

ResumeListener(startTime) ==
    [kind |-> "resume", time |-> startTime, play |-> FALSE]
RestoreListener(time, isPaused) ==
    [kind |-> "restore", time |-> time, play |-> ~isPaused]

\* the player after the once('loadedmetadata') callbacks ran in the order
\* they were registered
RECURSIVE RunListeners(_, _)
RunListeners(ls, player) ==
    IF ls = <<>> THEN player
    ELSE RunListeners(Tail(ls),
            [time |-> Head(ls).time,
             paused |-> IF Head(ls).play THEN FALSE ELSE player.paused,
             toast |-> IF Head(ls).kind = "resume"
                       THEN ResumedToast(Head(ls).time)
                       ELSE player.toast])

\* label: file.name.replace(/\.[^/.]+$/, "")
RemoveExtension(name) ==
    LET dots == {i \in 1..Len(name) : name[i] = "."}
        last == IF dots = {} THEN 0
                ELSE CHOOSE i \in dots : \A j \in dots : j <= i
    IN IF /\ last # 0
          /\ last < Len(name)
          /\ \A j \in (last + 1)..Len(name) : name[j] # "/"
       THEN SubSeq(name, 1, last - 1)
       ELSE name

\* the push without the forEach that clears the older tracks' default flag
PushTrackKeepDefaults(ts, file, blobUrl) ==
    ts \o <<[kind |-> "captions", label |-> RemoveExtension(file.name),
             srclang |-> "en", src |-> blobUrl, default |-> TRUE]>>

\* this.tracks after forEach(t => t.default = false) and push(new track)
PushTrack(ts, file, blobUrl) ==
    [i \in 1..Len(ts) |-> [ts[i] EXCEPT !.default = FALSE]]
    \o <<[kind |-> "captions", label |-> RemoveExtension(file.name),
          srclang |-> "en", src |-> blobUrl, default |-> TRUE]>>

\* --------------------------------------------------------------------- Init
\* What localStorage holds when the page opens: nothing (first run) or the
\* record an earlier session wrote.
SavedRecords ==
    {NoRecord, Record(SavedHistory(HistoryCap), DefaultSettings)}

\* DOMContentLoaded: AppState.init() on the stored record; the controller
\* objects hold their literal initial fields.
InitFrom(st) ==
    /\ stored = st
    /\ LET saved == StorageGet(st)
       IN IF saved.kind = "ok"
          THEN /\ history = saved.history
               /\ settings = Spread(DefaultSettings, saved.settings)
          ELSE /\ history = <<>>
               /\ settings = DefaultSettings
    /\ now = HistoryCap
    /\ currentFile = NoFile
    /\ videoObjectUrl = NoHandle
    /\ subtitleBlobs = <<>>
    /\ tracks = <<>>
    /\ source = NoSource
    /\ currentTime = 0
    /\ paused = TRUE
    /\ metadataPending = FALSE
    /\ listeners = <<>>
    /\ playTimers = 0
    /\ pendingReads = EmptyBag
    /\ nextHandle = 1
    /\ created = {}
    /\ revokeCount = [h \in Handles |-> 0]
    /\ urlCalls = <<>>
    /\ toast = NoToast
    /\ storeOk = TRUE
    /\ uncaught = (StorageGet(st).kind = "threw")
    /\ lastWritten = NoSecond
    /\ conversion = NoConversion
    /\ captionCss = Apply(settings)

Init == \E st \in SavedRecords : InitFrom(st)

\* ------------------------------------------------------------------ actions
\* Storage.save that never reaches localStorage
StorageSaveNever(st, state, setItemOk) == st

\* Storage.save whose failure path removes the item
StorageSaveWipes(st, state, setItemOk) == IF setItemOk THEN state ELSE NoRecord

\* Storage.save(state): setItem replaces the item, or throws and leaves it;
\* the catch logs (and alerts on QuotaExceededError) and returns
StorageSave(st, state, setItemOk) == IF setItemOk THEN state ELSE st

\* AppState.save() -> Storage.save({history, settings})
Save(h, s) == stored' = StorageSave(stored, Record(h, s), storeOk)

\* time passes between two handlers; a clock value that no entry carries
\* need not be left, the timestamps matter by their order only
Tick ==
    /\ now < HistoryCap + MaxTicks
    /\ \E i \in 1..Len(history) : history[i].lastPlayed = now
    /\ now' = now + 1
    /\ UNCHANGED <<appVars, playerVars>>

\* onSettingChange -> SettingsController.update(key, value) ->
\* AppState.updateSetting(key, value)
UpdateSetting(key, value) ==
    /\ settings' = [k \in (DOMAIN settings) \cup {key} |->
                       IF k = key THEN value ELSE settings[k]]
    /\ Save(history, settings')
    /\ captionCss' = Apply(settings')
    /\ UNCHANGED <<history, storeOk, now, playerVars>>

\* reset that keeps the colours the user chose
ResetDefaultsKeepColors ==
    [DefaultSettings EXCEPT !.textColor = settings.textColor,
                            !.bgColor = settings.bgColor]

\* the literal `defaults` of SettingsController.reset
ResetDefaults ==
    [fontSize |-> 18, fontFamily |-> "'Inter', sans-serif",
     textColor |-> "#ffffff", bgColor |-> "#000000", bgOpacity |-> 50]

\* onSettingsReset -> SettingsController.reset()
ResetSettings ==
    /\ settings' = ResetDefaults
    /\ Save(history, settings')
    /\ captionCss' = Apply(settings')
    /\ UNCHANGED <<history, storeOk, now, playerVars>>

\* localStorage starts to reject setItem (quota reached, storage disabled)
StoreFails ==
    /\ storeOk
    /\ storeOk' = FALSE
    /\ UNCHANGED <<stored, history, settings, captionCss, now, playerVars>>

\* localStorage accepts setItem again (space was freed)
StoreRecovers ==
    /\ ~storeOk
    /\ storeOk' = TRUE
    /\ UNCHANGED <<stored, history, settings, captionCss, now, playerVars>>

\* a source for the new video that takes the track list as it is
NewSourceKeepsTracks(url) == [video |-> url, tracks |-> tracks]

\* the source loadVideo assigns: the new object URL, tracks: []
NewSource(url) == [video |-> url, tracks |-> <<>>]

\* PlayerController.loadVideo(file)
LoadVideo(file) ==
    /\ nextHandle <= MaxHandles
    /\ LET newUrl == nextHandle
           startTime == ResumeTime(history, file.name)
           revoked == IF videoObjectUrl # NoHandle
                      THEN RevokeObjectURL(revokeCount, videoObjectUrl)
                      ELSE revokeCount
       IN /\ revokeCount' = CleanupSubtitles(revoked, subtitleBlobs)
          /\ urlCalls' = LoadVideoCalls(videoObjectUrl, subtitleBlobs, newUrl)
          /\ subtitleBlobs' = <<>>
          /\ currentFile' = file
          /\ videoObjectUrl' = newUrl
          /\ nextHandle' = nextHandle + 1
          /\ created' = created \cup {newUrl}
          /\ tracks' = <<>>
          /\ source' = NewSource(newUrl)
          /\ currentTime' = 0
          /\ paused' = TRUE
          /\ metadataPending' = TRUE
          /\ listeners' = IF startTime > 0
                          THEN Append(listeners, ResumeListener(startTime))
                          ELSE listeners
          /\ playTimers' = playTimers + 1
          /\ history' = AddToHistory(history, file, startTime, now)
          /\ Save(history', settings)
          /\ lastWritten' = NoSecond
    /\ UNCHANGED <<settings, captionCss, storeOk, now, pendingReads, toast,
                   uncaught,
                   conversion>>

\* PlayerController.loadVideo(undefined): the cleanup and the assignment of
\* currentFile run, then URL.createObjectURL(undefined) throws a TypeError
\* that nothing catches; followed up to the first escaped exception
LoadVideoNoFile ==
    /\ ~uncaught
    /\ LET revoked == IF videoObjectUrl # NoHandle
                      THEN RevokeObjectURL(revokeCount, videoObjectUrl)
                      ELSE revokeCount
           calls == LoadVideoCalls(videoObjectUrl, subtitleBlobs, NoHandle)
           revokes == SubSeq(calls, 1, Len(calls) - 1)
       IN /\ revokeCount' = CleanupSubtitles(revoked, subtitleBlobs)
          /\ urlCalls' = IF revokes = <<>> THEN urlCalls ELSE revokes
    /\ subtitleBlobs' = <<>>
    /\ tracks' = <<>>
    /\ currentFile' = NoFile
    /\ uncaught' = TRUE
    /\ UNCHANGED <<appVars, now, videoObjectUrl, source, currentTime, paused,
                   metadataPending, listeners, playTimers, pendingReads,
                   nextHandle, created, toast, lastWritten, conversion>>

\* setTimeout(() => this.instance.play(), 200) fires
PlayTimer ==
    /\ playTimers > 0
    /\ playTimers' = playTimers - 1
    /\ paused' = FALSE
    /\ UNCHANGED <<appVars, now, currentFile, videoObjectUrl, subtitleBlobs,
                   tracks, source, currentTime, metadataPending, listeners,
                   pendingReads, nextHandle, created, revokeCount, urlCalls,
                   toast, uncaught, lastWritten, conversion>>

\* loadSubtitle without the guard on currentFile: a read is always started
LoadSubtitleNoGuard(file) ==
    /\ nextHandle + BagCardinality(pendingReads) <= MaxHandles
    /\ pendingReads' = pendingReads (+) SetToBag({Read(file, videoObjectUrl)})
    /\ UNCHANGED <<appVars, now, currentFile, videoObjectUrl, subtitleBlobs,
                   tracks, source, currentTime, paused, metadataPending,
                   listeners, playTimers, nextHandle, created, revokeCount,
                   urlCalls, toast, uncaught, lastWritten, conversion>>

\* PlayerController.loadSubtitle(file), up to reader.readAsText(file); a read
\* is started while an object URL is left for its completion
LoadSubtitle(file) ==
    /\ IF currentFile = NoFile
       THEN /\ toast' = PleaseLoadToast
            /\ UNCHANGED pendingReads
       ELSE /\ nextHandle + BagCardinality(pendingReads) <= MaxHandles
            /\ pendingReads' =
                  pendingReads (+) SetToBag({Read(file, videoObjectUrl)})
            /\ UNCHANGED toast
    /\ UNCHANGED <<appVars, now, currentFile, videoObjectUrl, subtitleBlobs,
                   tracks, source, currentTime, paused, metadataPending,
                   listeners, playTimers, nextHandle, created, revokeCount,
                   urlCalls, uncaught, lastWritten, conversion>>

\* reader.onload of a read in flight; blobOk is whether createTrackBlob
\* produced an object URL or caught and returned ''
SubtitleOnload(read, blobOk) ==
    /\ BagIn(read, pendingReads)
    /\ nextHandle <= MaxHandles
    /\ LET file == read.file
           content == file.content
           vttContent == IF IsSrt(file) THEN SrtToVtt(content) ELSE content
           blobUrl == IF blobOk THEN nextHandle ELSE NoHandle
       IN /\ pendingReads' = pendingReads (-) SetToBag({read})
          /\ conversion' = [file |-> file, vtt |-> vttContent]
          /\ nextHandle' = nextHandle + 1
          /\ created' = IF blobOk THEN created \cup {blobUrl} ELSE created
          /\ urlCalls' = IF blobOk THEN <<CreateCall(blobUrl)>> ELSE urlCalls
          /\ subtitleBlobs' = Append(subtitleBlobs, blobUrl)
          /\ tracks' = PushTrack(tracks, file, blobUrl)
          \* refreshSourceWithTracks(): this.currentFile.name throws when
          \* currentFile is not a file, before the source is assigned
          /\ IF currentFile = NoFile
             THEN /\ uncaught' = TRUE
                  /\ UNCHANGED <<source, listeners, currentTime, paused,
                                 metadataPending, toast>>
             ELSE /\ source' = [video |-> videoObjectUrl, tracks |-> tracks']
                  /\ listeners' =
                        Append(listeners, RestoreListener(currentTime, paused))
                  /\ currentTime' = 0
                  /\ paused' = TRUE
                  /\ metadataPending' = TRUE
                  /\ toast' = SubtitleAddedToast
                  /\ UNCHANGED uncaught
    /\ UNCHANGED <<appVars, now, currentFile, videoObjectUrl, playTimers,
                   revokeCount, lastWritten>>

\* the player fires loadedmetadata for the installed source
LoadedMetadata ==
    /\ metadataPending
    /\ metadataPending' = FALSE
    /\ LET after == RunListeners(listeners,
                        [time |-> currentTime, paused |-> paused, toast |-> toast])
       IN /\ currentTime' = after.time
          /\ paused' = after.paused
          /\ toast' = after.toast
    /\ listeners' = <<>>
    /\ UNCHANGED <<appVars, now, currentFile, videoObjectUrl, subtitleBlobs,
                   tracks, source, playTimers, pendingReads, nextHandle,
                   created, revokeCount, urlCalls, uncaught, lastWritten,
                   conversion>>

\* the sampling test without the modulus: any position past 0
ShouldCaptureAnySecond(time) == time > 0

\* the sampling test without time > 0
ShouldCaptureFromZero(time) == Floor(time) % 5 = 0

\* time > 0 && Math.floor(time) % 5 === 0
ShouldCapture(time) == time > 0 /\ Floor(time) % 5 = 0

\* instance.on('timeupdate', ...) with the player at position time
TimeUpdate(time) ==
    /\ source # NoSource
    /\ metadataPending => time = currentTime
    /\ currentTime' = time
    /\ IF /\ currentFile # NoFile
          /\ ShouldCapture(time)
          /\ FindIndex(history, currentFile.name) # 0
       THEN /\ history' = UpdateHistoryTime(history, currentFile.name, time, now)
            /\ Save(history', settings)
            /\ lastWritten' = Floor(time)
       ELSE UNCHANGED <<history, stored, lastWritten>>
    /\ UNCHANGED <<settings, captionCss, storeOk, now, currentFile,
                   videoObjectUrl,
                   subtitleBlobs, tracks, source, paused, metadataPending,
                   listeners, playTimers, pendingReads, nextHandle, created,
                   revokeCount, urlCalls, toast, uncaught, conversion>>

\* a clearHistory that starts over: the settings go back to the defaults too
ClearHistoryAndSettings ==
    /\ history' = <<>>
    /\ settings' = DefaultSettings
    /\ Save(history', settings')
    /\ UNCHANGED <<captionCss, storeOk, now, playerVars>>

\* onClearHistory, confirmed: AppState.clearHistory()
ClearHistory ==
    /\ history' = <<>>
    /\ Save(history', settings)
    /\ UNCHANGED <<settings, captionCss, storeOk, now, playerVars>>

Next ==
    \/ Tick
    \/ \E file \in VideoFiles : LoadVideo(file)
    \/ PlayTimer
    \/ \E file \in SubtitleFiles : LoadSubtitle(file)
    \/ \E read \in Reads, blobOk \in BOOLEAN : SubtitleOnload(read, blobOk)
    \/ LoadedMetadata
    \/ \E time \in Positions : TimeUpdate(time)
    \/ ClearHistory

Spec == Init /\ [][Next]_vars

\* ------------------------------------------------- settings and persistence
\* What the item may hold when the page opens: nothing, text that does not
\* parse, or a record whose settings have any subset of the five fields
\* (none: a record without settings), with or without a history.
StoreRecords ==
    {NoRecord, CorruptRecord}
    \cup {Record(h, PartialSettings(keys)) :
            h \in {<<>>, SavedHistory(1)}, keys \in SUBSET SettingKeys}

InitSettings == \E st \in StoreRecords : InitFrom(st)

\* the settings panel and the history panel, with a store that works
NextSettings ==
    \/ \E key \in SettingKeys : \E value \in SettingValues(key) :
          UpdateSetting(key, value)
    \/ ResetSettings
    \/ ClearHistory

SpecSettings == InitSettings /\ [][NextSettings]_vars

\* The handlers that write the record, with a store that may reject writes.
\* The font size stands for the five settings inputs.
StoreSettingKeys == {"fontSize"}

NextStore ==
    \/ \E file \in VideoFiles : LoadVideo(file)
    \/ LoadedMetadata
    \/ \E time \in Positions : TimeUpdate(time)
    \/ ClearHistory
    \/ \E key \in StoreSettingKeys : \E value \in SettingValues(key) :
          UpdateSetting(key, value)
    \/ ResetSettings
    \/ StoreFails
    \/ StoreRecovers

InitStore == InitFrom(NoRecord)

SpecStore == InitStore /\ [][NextStore]_vars

\* ----------------------------------------------- handlers called at large
\* PlayerController.loadVideo as a method any caller may call, also without
\* a file (the file inputs of the UI always pass one).
NextCalls == Next \/ LoadVideoNoFile

InitCalls == InitFrom(NoRecord)

SpecCalls == InitCalls /\ [][NextCalls]_vars

\* ------------------------------------------------- persisted records at large
\* Records another build, or an edit of localStorage, may have left: a
\* history longer than the cap, and a history with a repeated name.
RepeatedNameHistory == [SavedHistory(2) EXCEPT ![2].name = 1]

ForeignRecords ==
    { Record(SavedHistory(HistoryCap + 2), DefaultSettings),
      Record(RepeatedNameHistory, DefaultSettings) }

InitSaved == \E st \in SavedRecords \cup ForeignRecords : InitFrom(st)

SpecSaved == InitSaved /\ [][Next]_vars

\* ----------------------------------------------------------- track removal
\* UIManager.renderSubtitleList gives every row a remove button that calls
\* handlers.onSubtitleRemove(index) with the row's 0-based index; the
\* handler it is bound to, removeSubtitle(index), is described in the
\* design of PlaybackSession and is modelled from that description.
RemoveIndexes == -1..MaxHandles

RemoveAt(seq, i) == SubSeq(seq, 1, i - 1) \o SubSeq(seq, i + 1, Len(seq))

\* removeSubtitle(index): a valid index releases that track's object URL,
\* takes the track out of the list and reinstalls the source with the tracks
\* that remain, capturing the position and the pause state as
\* refreshSourceWithTracks does; any other index changes nothing
RemoveSubtitle(index) ==
    IF index \in 0..(Len(tracks) - 1)
    THEN /\ revokeCount' = RevokeObjectURL(revokeCount, tracks[index + 1].src)
         /\ urlCalls' = <<RevokeCall(tracks[index + 1].src)>>
         /\ tracks' = RemoveAt(tracks, index + 1)
         /\ subtitleBlobs' = RemoveAt(subtitleBlobs, index + 1)
         /\ source' = [video |-> videoObjectUrl, tracks |-> tracks']
         /\ listeners' = Append(listeners, RestoreListener(currentTime, paused))
         /\ currentTime' = 0
         /\ paused' = TRUE
         /\ metadataPending' = TRUE
         /\ UNCHANGED <<appVars, now, currentFile, videoObjectUrl, playTimers,
                        pendingReads, nextHandle, created, toast, uncaught,
                        lastWritten, conversion>>
    ELSE UNCHANGED vars

NextRemove ==
    \/ \E file \in VideoFiles : LoadVideo(file)
    \/ \E file \in SubtitleFiles : LoadSubtitle(file)
    \/ \E read \in Reads, blobOk \in BOOLEAN : SubtitleOnload(read, blobOk)
    \/ LoadedMetadata
    \/ PlayTimer
    \/ \E index \in RemoveIndexes : RemoveSubtitle(index)

InitRemove == InitFrom(NoRecord)

SpecRemove == InitRemove /\ [][NextRemove]_vars

\* ------------------------------------------------------ subtitle conversion
\* Texts srtToVtt is applied to: up to MaxPieces pieces put together, so
\* that a line end or a timestamp may also arise where two pieces meet.
MaxPieces == 3

SrtPieces ==
    { SrtTimestamp, <<"\r", "\n">>, <<"\r">>, <<"\n">>, <<"a">>, <<"1">>,
      <<",">>, <<":">>, <<"0", "0", ":", "0", "0", ":", "0", "1">>,
      <<"5", "0", "0">> }

RECURSIVE Concat(_)
Concat(pieces) ==
    IF pieces = <<>> THEN <<>> ELSE Head(pieces) \o Concat(Tail(pieces))

SrtTexts ==
    {Concat(ps) : ps \in UNION {[1..n -> SrtPieces] : n \in 0..MaxPieces}}

\* reader.onload's conversion of the text of an .srt file, on its own:
\* SubtitleParser.srtToVtt(content)
SrtToVttCall(content) ==
    /\ conversion = NoConversion
    /\ conversion' = [file |-> [name |-> <<"m", ".", "s", "r", "t">>,
                                content |-> content],
                      vtt |-> SrtToVtt(content)]
    /\ UNCHANGED <<appVars, now, currentFile, videoObjectUrl, subtitleBlobs,
                   tracks, source, currentTime, paused, metadataPending,
                   listeners, playTimers, pendingReads, nextHandle, created,
                   revokeCount, urlCalls, toast, uncaught, lastWritten>>

NextSrt == \E content \in SrtTexts : SrtToVttCall(content)

InitSrt == InitFrom(NoRecord)

SpecSrt == InitSrt /\ [][NextSrt]_vars

\* Subtitle files by name and text: names that end with .srt in either
\* case, and names that do not.
ParsedNames ==
    { <<"m", ".", "S", "R", "T">>, <<"m", ".", "s", "r", "t">>,
      <<"m", ".", "v", "t", "t">>, <<"s", "r", "t">>,
      <<"m", ".", "s", "r", "t", ".", "v", "t", "t">> }

ParsedFiles ==
    {[name |-> n, content |-> c] : n \in ParsedNames, c \in {SrtCue, <<"a">>}}

ParsedReads == {Read(f, v) : f \in ParsedFiles, v \in Handles}

NextParsed ==
    \/ \E file \in VideoFiles : LoadVideo(file)
    \/ \E file \in ParsedFiles : LoadSubtitle(file)
    \/ \E read \in ParsedReads, blobOk \in BOOLEAN : SubtitleOnload(read, blobOk)
    \/ LoadedMetadata

InitParsed == InitFrom(NoRecord)

SpecParsed == InitParsed /\ [][NextParsed]_vars

\* ------------------------------------------------------------ caption style
\* The page opened on a record whose settings hold any colour string and
\* opacity, then the colour, opacity and size inputs and the reset button.
ColorRecords ==
    {Record(<<>>, [bgColor |-> c, bgOpacity |-> o]) :
        c \in ColorInputs, o \in Opacities}

InitApply == \E st \in ColorRecords \cup {NoRecord} : InitFrom(st)

NextApply ==
    \/ \E value \in ColorInputs : UpdateSetting("bgColor", value)
    \/ \E value \in Opacities : UpdateSetting("bgOpacity", value)
    \/ \E value \in SettingValues("fontSize") : UpdateSetting("fontSize", value)
    \/ ResetSettings

SpecApply == InitApply /\ [][NextApply]_vars

\* ------------------------------------------------------- progress sampling
\* The positions of Positions and a position between 0 and 1 s.
SamplePositions == Positions \cup {SubSecondSteps - 1}

NextSampling ==
    \/ Tick
    \/ \E file \in VideoFiles : LoadVideo(file)
    \/ PlayTimer
    \/ LoadedMetadata
    \/ \E time \in SamplePositions : TimeUpdate(time)
    \/ ClearHistory

SpecSampling == Init /\ [][NextSampling]_vars

\* ------------------------------------------------------------------- steps
\* a step of loadVideo: the only handler that assigns videoObjectUrl
LoadVideoStep == videoObjectUrl' # videoObjectUrl

\* a step of reader.onload: the only handler that takes a read out of flight
OnloadStep(read) ==
    /\ BagIn(read, pendingReads)
    /\ pendingReads' = pendingReads (-) SetToBag({read})

\* a step of the loadedmetadata signal
MetadataStep == metadataPending /\ ~metadataPending'

Names(h) == {h[i].name : i \in 1..Len(h)}
NoRepeatedName(h) == Cardinality(Names(h)) = Len(h)
Without(h, n) == SelectSeq(h, LAMBDA e : e.name # n)

\* object URLs created and not revoked
Live == {h \in created : revokeCount[h] = 0}
Owned == {videoObjectUrl} \cup {subtitleBlobs[i] : i \in 1..Len(subtitleBlobs)}

\* --------------------------------------------------------------------- C1
\* C1: whatever videos are recorded into the history, the history has at
\* most 20 entries and no two entries with the same name.
C1_HistoryCappedAndUnique ==
    /\ Len(history) <= HistoryCap
    /\ NoRepeatedName(history)

\* a new name was recorded into a full history and the oldest entry left
C1_Witness ==
    /\ Len(history) = HistoryCap
    /\ history[1].name = HistoryCap + 1
    /\ HistoryCap \notin Names(history)

\* --------------------------------------------------------------------- C2
\* C2: a subtitle read that completes after another video was loaded than
\* the one active when loadSubtitle was called adds no track and no handle
\* and does not reinstall the source.
C2_LateCompletionDiscarded ==
    [][\A read \in Reads :
          (OnloadStep(read) /\ read.video # videoObjectUrl)
              => UNCHANGED <<tracks, subtitleBlobs, source>>]_vars

\* --------------------------------------------------------------------- C3
\* C3: no object URL is revoked twice, and a loadVideo revokes every object
\* URL the controller owned when it ran.
C3_ReleasedExactlyOnce ==
    [][/\ \A h \in Handles : revokeCount'[h] <= 1
       /\ LoadVideoStep =>
            \A h \in Owned \ {NoHandle} : revokeCount'[h] = 1]_vars

\* a second video was loaded over a video that had a subtitle track: both of
\* the first video's object URLs are revoked, once each
C3_Witness ==
    /\ \E v, b \in created :
          /\ v # b
          /\ urlCalls = <<RevokeCall(v), RevokeCall(b), CreateCall(videoObjectUrl)>>
          /\ revokeCount[v] = 1
          /\ revokeCount[b] = 1
    /\ videoObjectUrl \in Live
    /\ subtitleBlobs = <<>>

\* --------------------------------------------------------------------- C4
\* C4: loadVideo(B) over a loaded video A revokes A's video URL and A's
\* subtitle URLs before it creates B's URL, leaves no track, and a revoked
\* video URL is never the installed source again.
IndexOfCall(calls, c) ==
    IF \E i \in 1..Len(calls) : calls[i] = c
    THEN CHOOSE i \in 1..Len(calls) : calls[i] = c
    ELSE 0

C4_OldReleasedBeforeNewCreated ==
    [][/\ (LoadVideoStep /\ videoObjectUrl # NoHandle) =>
            /\ \A h \in Owned \ {NoHandle} :
                  /\ revokeCount'[h] = 1
                  /\ IndexOfCall(urlCalls', RevokeCall(h)) # 0
                  /\ IndexOfCall(urlCalls', RevokeCall(h))
                       < IndexOfCall(urlCalls', CreateCall(videoObjectUrl'))
            /\ tracks' = <<>>
            /\ source' = [video |-> videoObjectUrl', tracks |-> <<>>]
       /\ source'.video # NoHandle => revokeCount'[source'.video] = 0]_vars

\* video B was just loaded over video A and A's subtitle
C4_Witness ==
    /\ Len(urlCalls) = 3
    /\ urlCalls[1].op = "revoke"
    /\ urlCalls[2].op = "revoke"
    /\ urlCalls[3] = CreateCall(videoObjectUrl)
    /\ tracks = <<>>

\* --------------------------------------------------------------------- C5
\* C5: once a video is loaded, the live object URLs are exactly the current
\* video URL and one URL per track of the track list.
C5_LiveHandlesAreTheSessions ==
    videoObjectUrl # NoHandle =>
        /\ videoObjectUrl \in Live
        /\ \A i \in 1..Len(tracks) : tracks[i].src \in Live \ {videoObjectUrl}
        /\ \A i, j \in 1..Len(tracks) : tracks[i].src = tracks[j].src => i = j
        /\ Live = {videoObjectUrl} \cup {tracks[i].src : i \in 1..Len(tracks)}

\* --------------------------------------------------------------------- C6
\* C6: when loadedmetadata fires, the position and the paused/playing state
\* captured by every pending reinstall are the player's position and state.
C6_ReinstallRestoresPlayback ==
    [][MetadataStep =>
          \A i \in 1..Len(listeners) :
              listeners[i].kind = "restore" =>
                  /\ currentTime' = listeners[i].time
                  /\ paused' = ~listeners[i].play]_vars

\* --------------------------------------------------------------------- C7
\* C7: recording a name that is already in the history leaves one entry of
\* that name, at index 0, with the supplied time and the current timestamp,
\* and the other entries in their previous order.
C7_RerecordMovesToFront ==
    [][(LoadVideoStep /\ currentFile'.name \in Names(history)) =>
          LET n == currentFile'.name
          IN /\ Cardinality({i \in 1..Len(history') : history'[i].name = n}) = 1
             /\ history'[1] =
                  HistoryEntry(currentFile', history[FindIndex(history, n)].time, now)
             /\ Without(history', n) = Without(history, n)]_vars

\* the oldest entry of a full history was recorded again
C7_Witness ==
    /\ Len(history) = HistoryCap
    /\ history[1].name = HistoryCap
    /\ history[2].name = 1
    /\ history[HistoryCap].name = HistoryCap - 1

\* --------------------------------------------------------------------- C8
\* C8: once a video has been recorded, the history has at most 20 entries
\* and one entry per name, also when it was loaded from a persisted record
\* that was longer or had repeated names.
C8_InvariantAfterAnyPersistedRecord ==
    currentFile # NoFile =>
        /\ Len(history) <= HistoryCap
        /\ NoRepeatedName(history)

\* --------------------------------------------------------------------- C9
\* C9: the history is ordered most recently touched first: lastPlayed never
\* increases from one index to the next.
C9_NewestFirst ==
    \A i \in 1..(Len(history) - 1) :
        history[i].lastPlayed >= history[i + 1].lastPlayed

\* progress of the playing video was written in place, later than the load
\* of the entry behind it
C9_Witness ==
    /\ Len(history) >= 2
    /\ history[1].name = currentFile.name
    /\ history[1].time = currentTime
    /\ currentTime > 0
    /\ ~metadataPending
    /\ listeners = <<>>
    /\ history[1].lastPlayed > history[2].lastPlayed
    /\ history[2].lastPlayed >= HistoryCap

\* -------------------------------------------------------------------- C10
\* C10: loadVideo of a name without history entry records time 0 and
\* schedules no seek; loadVideo of a name whose entry has time t > 0 records
\* t and schedules a seek to t, which loadedmetadata applies.
C10_ResumeOffset ==
    [][/\ (LoadVideoStep /\ currentFile'.name \notin Names(history)) =>
            /\ history'[1].time = 0
            /\ listeners' = listeners
       /\ (LoadVideoStep /\ currentFile'.name \in Names(history)) =>
            LET t == history[FindIndex(history, currentFile'.name)].time
            IN /\ history'[1].time = t
               /\ IF t > 0
                  THEN listeners' = Append(listeners, ResumeListener(t))
                  ELSE listeners' = listeners
       /\ (MetadataStep /\ listeners # <<>>
             /\ listeners[Len(listeners)].kind = "resume") =>
            currentTime' = listeners[Len(listeners)].time]_vars

\* a video with saved progress was loaded again and its seek is scheduled
C10_Witness ==
    /\ metadataPending
    /\ listeners = <<ResumeListener(5 * SubSecondSteps)>>
    /\ history[1].name = currentFile.name
    /\ history[1].time = 5 * SubSecondSteps

\* -------------------------------------------------------------------- C11
\* C11: loadSubtitle while no video is loaded shows the 'Please load a video
\* first!' toast and changes nothing else: no read is started, and tracks,
\* subtitle URLs, the installed source, the history and the stored record
\* stay as they were.
C11_SubtitleWithoutVideo ==
    [][(currentFile = NoFile /\ \E file \in SubtitleFiles : LoadSubtitle(file)) =>
          /\ toast' = PleaseLoadToast
          /\ UNCHANGED <<pendingReads, tracks, subtitleBlobs, source, history,
                         stored, settings, currentFile, videoObjectUrl,
                         listeners, nextHandle, created, revokeCount>>]_vars

\* a subtitle was selected before any video: the toast is up, nothing else
\* has happened
C11_Witness ==
    /\ currentFile = NoFile
    /\ toast = PleaseLoadToast
    /\ pendingReads = EmptyBag
    /\ source = NoSource

\* -------------------------------------------------------------------- C12
\* C12: when createTrackBlob fails (it returns ''), the subtitle load adds
\* no track and no subtitle URL and does not reinstall the source.
C12_FailedBlobAddsNoTrack ==
    [][\A read \in Reads :
          (OnloadStep(read) /\ created' = created)
              => UNCHANGED <<tracks, subtitleBlobs, source>>]_vars

\* -------------------------------------------------------------------- C13
\* C13: loadVideo without a file is a no-op: nothing is revoked, tracks and
\* subtitle URLs stay, currentFile, the source and the history are
\* unchanged, and no exception escapes.
C13_LoadVideoWithoutFileIsNoOp ==
    [][LoadVideoNoFile =>
          /\ UNCHANGED <<revokeCount, tracks, subtitleBlobs, currentFile,
                         videoObjectUrl, source, history, stored>>
          /\ uncaught' = uncaught]_vars

\* -------------------------------------------------------------------- C14
\* C14: a timeupdate signal in an integer second for which the handler has
\* already called updateHistoryTime since the video was loaded does not
\* write the history again.
C14_NoDoubleWriteInOneSecond ==
    [][\A time \in Positions :
          (TimeUpdate(time) /\ Floor(time) = lastWritten)
              => UNCHANGED <<history, stored>>]_vars

\* -------------------------------------------------------------------- C15
\* a step of a handler that calls AppState.save(): addToHistory (loadVideo),
\* updateHistoryTime that found the entry, clearHistory, updateSetting, reset
MutatingStep ==
    \/ LoadVideoStep
    \/ history' # history
    \/ ClearHistory
    \/ \E key \in SettingKeys : \E value \in SettingValues(key) :
          UpdateSetting(key, value)
    \/ ResetSettings

\* C15: with a working store, after every mutating operation the stored
\* record holds the history and the settings that are in memory.
C15_WriteThrough ==
    [][(storeOk /\ MutatingStep) => stored' = Record(history', settings')]_vars

\* progress the timeupdate handler wrote and a chosen font size are in
\* memory and in the record
C15_Witness ==
    /\ storeOk
    /\ history # <<>>
    /\ history[1].time > 0
    /\ settings.fontSize = UserSettings.fontSize
    /\ stored = Record(history, settings)
    /\ lastWritten # NoSecond

\* -------------------------------------------------------------------- C16
\* C16: when the store rejects the write, the mutating operation still
\* completes in memory, no exception escapes, and the stored record is the
\* one that was there before.
C16_WriteFailureIsNonFatal ==
    [][(~storeOk /\ MutatingStep) =>
          /\ stored' = stored
          /\ ~uncaught'
          /\ LoadVideoStep =>
                /\ history'[1].name = currentFile'.name
                /\ source'.video = videoObjectUrl'
          /\ ClearHistory => history' = <<>>
          /\ ResetSettings => settings' = DefaultSettings
          /\ \A key \in SettingKeys : \A value \in SettingValues(key) :
                UpdateSetting(key, value) => settings'[key] = value
          /\ \A time \in Positions :
                (TimeUpdate(time) /\ history' # history) =>
                    history'[FindIndex(history', currentFile.name)].time = time]_vars

\* a video was recorded and its progress written while the store rejected
\* writes: memory has them, the record is still the older one
C16_Witness ==
    /\ ~storeOk
    /\ stored.kind = "ok"
    /\ stored.history = <<>>
    /\ Len(history) = 1
    /\ history[1].time > 0

\* -------------------------------------------------------------------- C17
\* C17: when the item is absent or does not parse, Storage.get returns null
\* and throws nothing, and init leaves the history empty and the settings
\* at their defaults.
C17_ReadFailureIsNoSavedState ==
    stored.kind \in {"none", "corrupt"} =>
        /\ StorageGet(stored) = NoRecord
        /\ ~uncaught
        /\ history = <<>>
        /\ settings = DefaultSettings

\* the page opened on an item that does not parse
C17_Witness ==
    /\ stored = CorruptRecord
    /\ history = <<>>
    /\ settings = DefaultSettings

\* -------------------------------------------------------------------- C18
\* C18: the settings always have all five fields; a field the persisted
\* record has holds the persisted value, a field it lacks holds the default.
C18_SettingsFullyPopulated ==
    /\ DOMAIN settings = SettingKeys
    /\ stored.kind = "ok" =>
          \A k \in SettingKeys :
              settings[k] = IF k \in DOMAIN stored.settings
                            THEN stored.settings[k]
                            ELSE DefaultSettings[k]

\* the page opened on a record that has the font size and the opacity only
C18_Witness ==
    /\ stored.kind = "ok"
    /\ DOMAIN stored.settings = {"fontSize", "bgOpacity"}
    /\ settings.fontSize = UserSettings.fontSize
    /\ settings.bgOpacity = UserSettings.bgOpacity
    /\ settings.textColor = DefaultSettings.textColor
    /\ settings.bgColor = DefaultSettings.bgColor
    /\ settings.fontFamily = DefaultSettings.fontFamily

\* -------------------------------------------------------------------- C19
\* C19: reset, whatever updateSetting calls came before it, leaves the
\* settings equal to the fixed default record and persists that record.
C19_ResetYieldsDefaults ==
    [][ResetSettings =>
          /\ settings' = DefaultSettings
          /\ stored' = Record(history, DefaultSettings)]_vars

\* the defaults are in memory and in the record, next to the history the
\* page opened on
C19_Witness ==
    /\ settings = DefaultSettings
    /\ stored = Record(SavedHistory(1), DefaultSettings)
    /\ history = SavedHistory(1)

\* -------------------------------------------------------------------- C20
\* C20: after every subtitle load that completed, exactly one track is the
\* default and it is the last one; a completion appends its track behind
\* the tracks that were there, which keep their order, and nothing but a
\* completion or the reset of loadVideo changes the list.
C20_NewestTrackIsDefault ==
    [][/\ \A i \in 1..Len(tracks') : tracks'[i].default <=> i = Len(tracks')
       /\ \A read \in Reads : OnloadStep(read) =>
             /\ Len(tracks') = Len(tracks) + 1
             /\ \A i \in 1..Len(tracks) :
                   [tracks'[i] EXCEPT !.default = tracks[i].default] = tracks[i]
             /\ tracks'[Len(tracks')].src = subtitleBlobs'[Len(subtitleBlobs')]
       /\ tracks' # tracks =>
             \/ \E read \in Reads : OnloadStep(read)
             \/ LoadVideoStep /\ tracks' = <<>>]_vars

\* a second subtitle completed: it is the default, the first no longer is
C20_Witness ==
    /\ Len(tracks) = 2
    /\ ~tracks[1].default
    /\ tracks[2].default
    /\ tracks[1].src # tracks[2].src

RECURSIVE Rewritten(_)
Rewritten(text) ==
    IF text = <<>> THEN <<>>
    ELSE IF text[1] = "\r"
         THEN <<"\n">> \o Rewritten(SubSeq(text,
                  IF Len(text) >= 2 /\ text[2] = "\n" THEN 3 ELSE 2, Len(text)))
         ELSE IF /\ Len(text) >= 12
                 /\ text[9] = ","
                 /\ \A i \in {3, 6} : text[i] = ":"
                 /\ \A i \in (1..12) \ {3, 6, 9} : text[i] \in Digits
              THEN [i \in 1..12 |-> IF i = 9 THEN "." ELSE text[i]]
                   \o Rewritten(SubSeq(text, 13, Len(text)))
              ELSE <<text[1]>> \o Rewritten(Tail(text))

\* C22: srtToVtt of a non-empty text is the header line WEBVTT, an empty
\* line, and the text with every CR LF and every lone CR replaced by LF and
\* every HH:MM:SS,mmm rewritten to HH:MM:SS.mmm, all other characters
\* unchanged; srtToVtt of the empty text is the empty text, without header.
C22_SrtToVttRewrites ==
    (conversion # NoConversion /\ IsSrt(conversion.file)) =>
       conversion.vtt =
          IF conversion.file.content = <<>> THEN <<>>
          ELSE <<"W", "E", "B", "V", "T", "T", "\n", "\n">>
               \o Rewritten(conversion.file.content)

\* a text of two timestamps with a lone CR between them was converted: the
\* header, both commas turned into dots, the CR turned into LF
C22_Witness ==
    /\ conversion # NoConversion
    /\ conversion.file.content = SrtTimestamp \o <<"\r">> \o SrtTimestamp
    /\ Len(conversion.vtt) = 8 + 25
    /\ SubSeq(conversion.vtt, 1, 6) = <<"W", "E", "B", "V", "T", "T">>
    /\ conversion.vtt[8 + 9] = "."
    /\ conversion.vtt[8 + 13] = "\n"
    /\ conversion.vtt[8 + 22] = "."

C24_HexToRgba ==
    /\ captionCss.bg.rgb =
          CASE settings.bgColor = "#000000" -> <<0, 0, 0>>
            [] settings.bgColor = "#00ff00" -> <<0, 255, 0>>
            [] settings.bgColor = "#FfA07a" -> <<255, 160, 122>>
            [] settings.bgColor = "ff8800" -> <<255, 136, 0>>
            [] OTHER -> <<0, 0, 0>>
    /\ captionCss.bg.alpha.num = settings.bgOpacity
    /\ captionCss.bg.alpha.den = 100
    /\ (settings.bgColor = "#000000" /\ settings.bgOpacity = 50) =>
          /\ captionCss.bg.rgb = <<0, 0, 0>>
          /\ 2 * captionCss.bg.alpha.num = captionCss.bg.alpha.den
    /\ ~uncaught

\* the opacity input and the colour input have acted: a colour without #
\* is applied at opacity 80, and the record persisted holds both
C24_Witness ==
    /\ settings.bgColor = "ff8800"
    /\ settings.bgOpacity = 80
    /\ captionCss.bg.rgb = <<255, 136, 0>>
    /\ stored.kind = "ok"
    /\ stored.settings.bgColor = "ff8800"
    /\ DOMAIN stored.settings = SettingKeys

\* --------------------------------------------------------------------- C25
\* C25: a progress update for a name that is not in the history changes
\* nothing and writes nothing to the store; for a name that is in the
\* history it changes the time and lastPlayed of that entry and nothing
\* else of the history.
C25_UpdateTouchesOnlyItsEntry ==
    [][\A time \in Positions : TimeUpdate(time) =>
          LET idx == FindIndex(history, currentFile.name)
          IN IF idx = 0
             THEN history' = history /\ stored' = stored
             ELSE /\ Len(history') = Len(history)
                  /\ \A i \in 1..Len(history) : i # idx => history'[i] = history[i]
                  /\ [history'[idx] EXCEPT !.time = history[idx].time,
                                         !.lastPlayed = history[idx].lastPlayed]
                        = history[idx]]_vars

\* the history was cleared while the store rejected writes, the store works
\* again, and the player reported 5 s for the video whose entry is gone (no
\* resume seek has run, no update was made): the stale record is still what
\* is stored
C25_Witness ==
    /\ currentFile # NoFile
    /\ history = <<>>
    /\ currentTime = 5 * SubSecondSteps
    /\ lastWritten = NoSecond
    /\ storeOk
    /\ stored.kind = "ok"
    /\ stored.history # <<>>
    /\ stored.history[1].time = 0
    /\ toast = NoToast

\* --------------------------------------------------------------------- C26
\* C26: a timeupdate changes the history or the stored record only when a
\* video is loaded, the position is past 0 and its whole second is a
\* multiple of 5; the change is to the entry named after the loaded file,
\* whose time becomes the position the player reports; every other
\* timeupdate leaves the history and the stored record as they were.
C26_SamplingPolicy ==
    [][\A time \in SamplePositions : TimeUpdate(time) =>
          ((history' # history \/ stored' # stored) =>
              /\ currentFile # NoFile
              /\ time > 0
              /\ (time \div SubSecondSteps) % 5 = 0
              /\ \E idx \in 1..Len(history) :
                    /\ history[idx].name = currentFile.name
                    /\ Len(history') = Len(history)
                    /\ history'[idx].name = currentFile.name
                    /\ history'[idx].time = time
                    /\ currentTime' = time
                    /\ \A i \in 1..Len(history) :
                          i # idx => history'[i] = history[i])]_vars

\* the player reported a position between 0 and 1 s (whole second 0, a
\* multiple of 5) and the entry of the loaded video took it
C26_Witness ==
    /\ currentFile # NoFile
    /\ currentTime = SubSecondSteps - 1
    /\ lastWritten = 0
    /\ history # <<>>
    /\ history[1].name = currentFile.name
    /\ history[1].time = currentTime
    /\ stored = Record(history, settings)

\* --------------------------------------------------------------------- C27
\* C27: the seek that runs at loadedmetadata belongs to the video that is
\* loaded: the position becomes that video's own stored offset, or stays
\* where it is when the video has none, never the offset of a video loaded
\* before it; and a seek that has run is not left to run again.
C27_ResumeSeekBelongsToLoadedVideo ==
    [][(MetadataStep /\ FindIndex(history, currentFile.name) # 0) =>
          LET own == history[FindIndex(history, currentFile.name)].time
          IN /\ currentTime' = IF own > 0 THEN own ELSE currentTime
             /\ listeners' = <<>>]_vars

\* --------------------------------------------------------------------- C28
\* C28: loading a video whose name is in the history does not reset its
\* stored progress: the offset a lookup of the name finds is the same after
\* the load as before it, in memory and in the stored record, however often
\* the video is loaded.
C28_LoadKeepsProgress ==
    [][(LoadVideoStep /\ currentFile'.name \in Names(history)) =>
          /\ ResumeTime(history', currentFile'.name)
                = ResumeTime(history, currentFile'.name)
          /\ stored'.kind = "ok"
          /\ ResumeTime(stored'.history, currentFile'.name)
                = ResumeTime(history, currentFile'.name)]_vars

\* a video with 5 s of progress was loaded twice in a row: two seeks to 5 s
\* are registered and the entry, in memory and stored, still holds 5 s
C28_Witness ==
    /\ listeners = <<ResumeListener(5 * SubSecondSteps),
                     ResumeListener(5 * SubSecondSteps)>>
    /\ history[1].name = currentFile.name
    /\ history[1].time = 5 * SubSecondSteps
    /\ stored.history[1].time = 5 * SubSecondSteps
    /\ lastWritten = NoSecond

\* --------------------------------------------------------------------- C29
\* C29: after loadVideo found a stored offset above 0 and until the seek it
\* registered has run, no timeupdate lowers the time stored for the video:
\* a timeupdate between the load and loadedmetadata leaves the entry, and
\* the stored record, as they were.
C29_OffsetKeptUntilSeek ==
    [][\A time \in SamplePositions :
          (/\ TimeUpdate(time)
           /\ metadataPending
           /\ \E i \in 1..Len(listeners) : listeners[i].kind = "resume") =>
             /\ Len(history') = Len(history)
             /\ \A i \in 1..Len(history) : history'[i].time >= history[i].time
             /\ stored' = stored]_vars

\* a video with a stored offset of 5 s is loaded, play() has been called and
\* loadedmetadata is still to come: timeupdates are delivered at position 0
\* and the entry holds 5 s
C29_Witness ==
    /\ metadataPending
    /\ listeners = <<ResumeListener(5 * SubSecondSteps)>>
    /\ ~paused
    /\ playTimers = 0
    /\ currentTime = 0
    /\ history # <<>>
    /\ history[1].name = currentFile.name
    /\ history[1].time = 5 * SubSecondSteps
    /\ stored.history[1].time = 5 * SubSecondSteps

\* --------------------------------------------------------------------- C30
\* C30: after every handler the source installed in the player refers to
\* live handles only: its video handle is the session's current one and has
\* not been released, and no track handle in it has been released.
C30_NoUseAfterRelease ==
    source # NoSource =>
       /\ source.video = videoObjectUrl
       /\ source.video \in created
       /\ revokeCount[source.video] = 0
       /\ \A i \in 1..Len(source.tracks) :
             source.tracks[i].src # NoHandle =>
                /\ source.tracks[i].src \in created
                /\ revokeCount[source.tracks[i].src] = 0

\* a second video was loaded over the first, whose handle is released, and
\* a subtitle completed for it: the source carries the new video and the
\* track, both live
C30_Witness ==
    /\ source # NoSource
    /\ \E h \in created : revokeCount[h] = 1 /\ h < source.video
    /\ Len(source.tracks) = 1
    /\ source.tracks[1].src \in Live
    /\ source.video \in Live

\* --------------------------------------------------------------------- C31
\* what AppState.init would restore from the stored item
PersistedSettings(st) == Spread(DefaultSettings, StorageGet(st).settings)
PersistedHistory(st) == StorageGet(st).history

\* a step of addToHistory (loadVideo), of the timeupdate handler
\* (updateHistoryTime) or of clearHistory
HistoryStep ==
    \/ LoadVideoStep
    \/ \E time \in Positions : TimeUpdate(time)
    \/ ClearHistory

\* a step of updateSetting or of reset
SettingsStep ==
    \/ \E key \in SettingKeys : \E value \in SettingValues(key) :
          UpdateSetting(key, value)
    \/ ResetSettings

\* C31 as stated: the history operations leave the settings, in memory and
\* persisted, unchanged; the settings operations leave the history, in
\* memory and persisted, unchanged; clearHistory empties the history and
\* does not remove the persisted record.
C31_Independent ==
    [][/\ HistoryStep =>
             /\ settings' = settings
             /\ PersistedSettings(stored') = PersistedSettings(stored)
       /\ SettingsStep =>
             /\ history' = history
             /\ PersistedHistory(stored') = PersistedHistory(stored)
       /\ ClearHistory =>
             /\ history' = <<>>
             /\ stored.kind = "ok" => stored'.kind = "ok"]_vars

\* C31, amended: the history operations leave the settings in memory
\* unchanged and the settings operations leave the history in memory
\* unchanged; each operation saves the whole record, so what is persisted
\* of the other part is afterwards either what it was or what is in memory
\* (the two differ only after a write that failed), and it is what it was
\* whenever it agreed with memory before; clearHistory empties the history
\* and does not remove the persisted record.
C31_IndependentInMemory ==
    [][/\ HistoryStep =>
             /\ settings' = settings
             /\ PersistedSettings(stored') \in {PersistedSettings(stored), settings}
             /\ PersistedSettings(stored) = settings =>
                   PersistedSettings(stored') = settings
       /\ SettingsStep =>
             /\ history' = history
             /\ PersistedHistory(stored') \in {PersistedHistory(stored), history}
             /\ PersistedHistory(stored) = history =>
                   PersistedHistory(stored') = history
       /\ ClearHistory =>
             /\ history' = <<>>
             /\ stored.kind = "ok" => stored'.kind = "ok"
             /\ storeOk => stored' = Record(<<>>, settings)]_vars

\* the history was cleared with a video loaded and a font size the user
\* chose: the record is still stored, with an empty history and that size
C31_Witness ==
    /\ currentFile # NoFile
    /\ history = <<>>
    /\ settings.fontSize = UserSettings.fontSize
    /\ storeOk
    /\ stored = Record(<<>>, settings)
    /\ captionCss = Apply(settings)

====
